---- MODULE Spec2Model ----
(***************************************************************************)
(* A model of src/variable.rs of rust-netcdf: the Numeric trait (one       *)
(* implementation per element kind, generated by impl_numeric!), the       *)
(* Variable methods built on it, and init_variables / init_variable.       *)
(*                                                                         *)
(* Every caller is a thread that works on a group of its own (the Rust     *)
(* borrow rules forbid two threads inside a `&mut Variable` or             *)
(* `&mut HashMap` method of the same object); what the threads share is    *)
(* the netCDF library and the one process-wide mutex libnetcdf_lock.       *)
(* An invocation is a sequence of steps: validation outside the lock,      *)
(* lock(), the statements inside the unsafe block, the library call, the   *)
(* drop of the guard, and the translation of the returned code.            *)
(*                                                                         *)
(* usize and u64 are modelled as words of WordBits bits.  An overflowing   *)
(* `+` or `*` wraps in a build without overflow checks and panics in a     *)
(* build with them; both builds are behaviours of the model.               *)
(***************************************************************************)
EXTENDS Integers, Sequences, FiniteSets, TLC

\* ------------------------------------------------------------------ bounds
WordBits == 4
MaxDims == 2
MaxDimLen == 2
MaxArg == 2
MaxValues == 4
MaxWrites == 1
NThreads == 2

\* ------------------------------------------------------- machine integers
WordMod == 2 ^ WordBits
WordMax == WordMod - 1
\* isize::MAX: the largest byte count Vec::with_capacity accepts
AllocMax == (WordMod \div 2) - 1

WrapAdd(a, b) == (a + b) % WordMod
WrapMul(a, b) == (a * b) % WordMod
AddOverflows(a, b) == a + b > WordMax
MulOverflows(a, b) == a * b > WordMax

\* ---------------------------------------------------------------- helpers
Range(f) == {f[x] : x \in DOMAIN f}

RECURSIVE SeqsUpTo(_, _)
SeqsUpTo(S, n) ==
    IF n = 0 THEN {<<>>}
    ELSE LET shorter == SeqsUpTo(S, n - 1)
         IN  shorter \cup {Append(s, x) : s \in {q \in shorter : Len(q) = n - 1}, x \in S}

RECURSIVE Product(_)
Product(s) == IF s = <<>> THEN 1 ELSE Head(s) * Product(Tail(s))

RECURSIVE Sum(_)
Sum(s) == IF s = <<>> THEN 0 ELSE Head(s) + Sum(Tail(s))

Iota(n) == [k \in 1..n |-> k]

DimLens(dimensions) == [i \in 1..Len(dimensions) |-> dimensions[i].len]

\* --------------------------------------------------- results of a method
Outcome(res, values_len) == [res |-> res, values_len |-> values_len]

\* single_value_from_variable and put_value_at: the same index validation
RECURSIVE IndexLoop(_, _, _)
IndexLoop(dimensions, indices, i) ==
    IF i > Len(indices) THEN Outcome("Ok", 1)
    ELSE IF indices[i] >= dimensions[i].len THEN Outcome("ShapeError", 0)
    ELSE IndexLoop(dimensions, indices, i + 1)

IndexValidation(dimensions, indices) ==
    IF Len(indices) # Len(dimensions) THEN Outcome("ShapeError", 0)
    ELSE IndexLoop(dimensions, indices, 1)

\* slice_from_variable and read_slice_into_buffer: the loop over the
\* dimensions; `checked` says whether the build panics on overflow
RECURSIVE SliceLoop(_, _, _, _, _, _)
SliceLoop(dimensions, indices, slice_len, i, values_len, checked) ==
    IF i > Len(indices) THEN Outcome("Ok", values_len)
    ELSE IF indices[i] >= dimensions[i].len THEN Outcome("ShapeError", 0)
    ELSE IF checked /\ AddOverflows(indices[i], slice_len[i]) THEN Outcome("panic", 0)
    ELSE IF WrapAdd(indices[i], slice_len[i]) > dimensions[i].len
         THEN Outcome("ShapeError", 0)
    ELSE IF slice_len[i] > 0
         THEN IF checked /\ MulOverflows(values_len, slice_len[i])
              THEN Outcome("panic", 0)
              ELSE SliceLoop(dimensions, indices, slice_len, i + 1,
                             WrapMul(values_len, slice_len[i]), checked)
    ELSE Outcome("ShapeError", 0)

SliceValidation(dimensions, indices, slice_len, checked) ==
    IF Len(indices) # Len(dimensions) THEN Outcome("ShapeError", 0)
    ELSE IF Len(indices) # Len(slice_len) THEN Outcome("ShapeError", 0)
    ELSE SliceLoop(dimensions, indices, slice_len, 1, 1, checked)

\* For C6: the capacity check refuses a buffer of exactly the required size
SliceIntoValidationStrict(dimensions, indices, slice_len, capacity, checked) ==
    LET o == SliceValidation(dimensions, indices, slice_len, checked)
    IN  IF o.res # "Ok" THEN o
        ELSE IF capacity <= o.values_len THEN Outcome("CapacityError", o.values_len)
        ELSE o

\* read_slice_into_buffer: the slice validation, then the capacity check
SliceIntoValidation(dimensions, indices, slice_len, capacity, checked) ==
    LET o == SliceValidation(dimensions, indices, slice_len, checked)
    IN  IF o.res # "Ok" THEN o
        ELSE IF capacity < o.values_len THEN Outcome("CapacityError", o.values_len)
        ELSE o

\* put_values_at: no check of indices against the dimensions' count, and
\* values_len starts at 0 and is a sum
RECURSIVE PutLoop(_, _, _, _, _, _)
PutLoop(dimensions, indices, slice_len, i, values_len, checked) ==
    IF i > Len(indices) THEN Outcome("Ok", values_len)
    ELSE IF i > Len(dimensions) THEN Outcome("panic", 0)
    ELSE IF indices[i] >= dimensions[i].len THEN Outcome("ShapeError", 0)
    ELSE IF checked /\ AddOverflows(indices[i], slice_len[i]) THEN Outcome("panic", 0)
    ELSE IF WrapAdd(indices[i], slice_len[i]) > dimensions[i].len
         THEN Outcome("ShapeError", 0)
    ELSE IF slice_len[i] = 0 THEN Outcome("ShapeError", 0)
    ELSE IF checked /\ AddOverflows(values_len, slice_len[i]) THEN Outcome("panic", 0)
    ELSE PutLoop(dimensions, indices, slice_len, i + 1,
                 WrapAdd(values_len, slice_len[i]), checked)

PutValuesValidation(dimensions, indices, slice_len, nvalues, checked) ==
    IF Len(indices) # Len(slice_len) THEN Outcome("ShapeError", 0)
    ELSE LET o == PutLoop(dimensions, indices, slice_len, 1, 0, checked)
         IN  IF o.res # "Ok" THEN o
             ELSE IF o.values_len # nvalues THEN Outcome("ShapeError", o.values_len)
             ELSE o

\* read_variable_into_buffer: the capacity check
IntoValidation(len, capacity) ==
    IF capacity < len THEN Outcome("CapacityError", len) ELSE Outcome("Ok", len)

\* For C10: the exact-type check ignores `cast`
TypeValidationNoCast(vartype, nc_type, cast, len) ==
    IF vartype # nc_type THEN Outcome("TypeMismatchError", 0) ELSE Outcome("Ok", len)

\* get_var_as_type!: the exact-type check
TypeValidation(vartype, nc_type, cast, len) ==
    IF (~cast) /\ (vartype # nc_type) THEN Outcome("TypeMismatchError", 0)
    ELSE Outcome("Ok", len)

\* Vec::with_capacity(n) panics ("capacity overflow") beyond isize::MAX
AllocPanics(n) == n > AllocMax


\* ------------------------------------------------------ the netCDF library
\* Row-major ("last dimension varies fastest") offsets of the region that
\* starts at `start` and spans `count`, in the order the library transfers
\* them; nc_get_vara_* / nc_put_vara_* / nc_get_var1_* / nc_put_var1_*
RECURSIVE RegionFrom(_, _, _, _, _)
RegionFrom(dimlens, start, count, i, base) ==
    IF i > Len(dimlens) THEN <<base>>
    ELSE LET RECURSIVE Rows(_)
             Rows(k) ==
                 IF k >= count[i] THEN <<>>
                 ELSE RegionFrom(dimlens, start, count, i + 1,
                                 base * dimlens[i] + start[i] + k) \o Rows(k + 1)
         IN  Rows(0)

RegionOffsets(dimlens, start, count) == RegionFrom(dimlens, start, count, 1, 0)

\* The library's own edge check (NC_EINVALCOORDS, NC_EEDGE), on the true sums
RegionInside(dimlens, start, count) ==
    \A i \in 1..Len(dimlens) : start[i] + count[i] <= dimlens[i]

Ones(n) == [i \in 1..n |-> 1]

\* nc_get_vara_*: the values of the region, in transfer order
GetVara(data, dimlens, start, count) ==
    LET offs == RegionOffsets(dimlens, start, count)
    IN  [k \in 1..Len(offs) |-> data[offs[k] + 1]]

\* nc_put_vara_*: the data after the region is overwritten with `values`
PutVara(data, dimlens, start, count, values) ==
    LET offs == RegionOffsets(dimlens, start, count)
    IN  [p \in 1..Len(data) |->
            IF \E k \in 1..Len(offs) : offs[k] + 1 = p
            THEN values[CHOOSE k \in 1..Len(offs) : offs[k] + 1 = p]
            ELSE data[p]]

\* The content of a variable nobody has written: one distinct value a cell
FreshData(n) == [k \in 1..n |-> 0 - k]

\* nc_put_att_*: replace the attribute of that name or append a new one
PutAtt(atts, name, xtype) ==
    IF \E k \in 1..Len(atts) : atts[k].name = name
    THEN [k \in 1..Len(atts) |->
            IF atts[k].name = name THEN [name |-> name, xtype |-> xtype] ELSE atts[k]]
    ELSE Append(atts, [name |-> name, xtype |-> xtype])

\* ------------------------------------------------------------------- state
VARIABLES
    ncdims,     \* library: per group, the dimension lengths by dimension id
    ncvars,     \* library: per group, the declared variables by variable id
    ncatts,     \* library: per group and variable id, the attributes in order
    ncdata,     \* library: per group and variable id, the stored values
    vars,       \* per group, HashMap<String, Variable>: name -> Variable
    holder,     \* libnetcdf_lock: the thread that holds the guard, 0 if free
    poisoned,   \* libnetcdf_lock: a thread panicked while it held the guard
    th,         \* per thread, the invocation in progress
    nwrites,    \* successful data writes so far
    written     \* history: per group, the last slice written and not overwritten

vars_all ==
    <<ncdims, ncvars, ncatts, ncdata, vars, holder, poisoned, th, nwrites, written>>

Threads == 1..NThreads

Kinds == {"NC_INT", "NC_DOUBLE"}
AttNames == {"units"}

\* Arguments a caller passes for an index or a slice length
ArgWords == (0..MaxArg) \cup {WordMax}
ArgSeqs == SeqsUpTo(ArgWords, MaxDims)

\* grp_dims: HashMap<String, Dimension> of group g, discovered beforehand
GrpDims(g) ==
    {[name |-> <<"dim", k - 1>>, id |-> k - 1, len |-> ncdims[g][k]] :
        k \in 1..Len(ncdims[g])}

NoBuffer == [len |-> 0, cap |-> 0]

Idle ==
    [pc |-> "idle", op |-> "none", phase |-> "none", v |-> "none",
     indices |-> <<>>, slice_len |-> <<>>, values |-> <<>>,
     buffer |-> NoBuffer, nc_type |-> "none", cast |-> FALSE, att |-> "none",
     values_len |-> 0, err |-> "NC_NOERR", res |-> "none", out |-> <<>>,
     calls |-> 0, locks |-> 0, inlock |-> <<>>, ub |-> FALSE, given |-> NoBuffer, i |-> 0, n |-> 0, i_att |-> 0, natts |-> 0,
     found |-> <<>>, decl |-> <<>>]

\* A declaration of the library: dimensions `lens` and variables `decls`
Config(lens, decls) == [dims |-> lens, vars |-> decls]

Decl(name, xtype, dimids, atts) ==
    [name |-> name, xtype |-> xtype, dimids |-> dimids, atts |-> atts]

DeclLen(cfg, d) == Product([k \in 1..Len(d.dimids) |-> cfg.dims[d.dimids[k] + 1]])

\* ---------------------------------------------------------- init_variable
\* The dimensions of `dimids` found in grp_dims, in the order of `dimids`
RECURSIVE ResolveDims(_, _)
ResolveDims(dimids, grp_dims) ==
    IF dimids = <<>> THEN <<>>
    ELSE LET m == {d \in grp_dims : d.id = Head(dimids)}
         IN  (IF m = {} THEN <<>> ELSE <<CHOOSE d \in m : TRUE>>)
                 \o ResolveDims(Tail(dimids), grp_dims)

\* For C7: the lengths are added up, as put_values_at adds slice lengths
LenOfSum(dim_vec) == Sum(DimLens(dim_vec)) % WordMod

\* `len *= grp_dim.len` over the resolved dimensions, starting from 1
RECURSIVE LenOf(_)
LenOf(dim_vec) ==
    IF dim_vec = <<>> THEN 1
    ELSE WrapMul(LenOf(SubSeq(dim_vec, 1, Len(dim_vec) - 1)), dim_vec[Len(dim_vec)].len)

\* The Variable that init_variable inserts
NewVariable(grp_dims, name, var_type, dimids, attr_map, varid, grp_id) ==
    LET dim_vec == ResolveDims(dimids, grp_dims)
    IN  [name |-> name, attributes |-> attr_map, dimensions |-> dim_vec,
         vartype |-> var_type, len |-> LenOf(dim_vec), id |-> varid, grp_id |-> grp_id]

\* HashMap::insert
Insert(map, key, value) ==
    [k \in (DOMAIN map) \cup {key} |-> IF k = key THEN value ELSE map[k]]

\* init_attributes: the Attribute built for attribute number i_att
AttEntry(a, i_att, varid, grp_id) ==
    [name |-> a.name, attrtype |-> a.xtype, id |-> i_att, var_id |-> varid,
     file_id |-> grp_id]

\* init_attributes: the map after the attributes `atts`, in order, are
\* inserted into `map`
RECURSIVE AttrsInto(_, _, _, _)
AttrsInto(map, atts, varid, grp_id) ==
    IF atts = <<>> THEN map
    ELSE LET n == Len(atts)
         IN  Insert(AttrsInto(map, SubSeq(atts, 1, n - 1), varid, grp_id),
                    atts[n].name, AttEntry(atts[n], n - 1, varid, grp_id))

AttrMap(atts, varid, grp_id) == AttrsInto(<<>>, atts, varid, grp_id)

\* The catalog init_variables builds for group g when no library call fails
RECURSIVE Discovered(_, _)
Discovered(g, n) ==
    IF n = 0 THEN <<>>
    ELSE LET d == ncvars[g][n]
         IN  Insert(Discovered(g, n - 1), d.name,
                    NewVariable(GrpDims(g), d.name, d.xtype, d.dimids,
                                AttrMap(ncatts[g][n], n - 1, g), n - 1, g))

\* ------------------------------------------------------------ invocations
Set(t, r) == th' = [th EXCEPT ![t] = r]

\* From the entry of a method to its first lock(), or to its early return
Begin(t, r, o) ==
    /\ th[t].pc = "idle"
    /\ Set(t, IF o.res = "Ok"
              THEN [r EXCEPT !.pc = "lock", !.values_len = o.values_len]
              ELSE [r EXCEPT !.pc = "done", !.res = o.res, !.values_len = o.values_len])
    /\ UNCHANGED <<ncdims, ncvars, ncatts, ncdata, vars, holder, poisoned, nwrites, written>>

Invocation(op, phase, v) == [Idle EXCEPT !.op = op, !.phase = phase, !.v = v]

\* A caller's Vec: its length and its capacity
Buffers == {b \in [len : 0..MaxValues, cap : 0..MaxValues] : b.len \in {0, b.cap}}

\* Numeric::from_variable (Variable::values), up to the lock
from_variable(t) ==
    /\ th[t].pc = "idle"
    /\ \E v \in DOMAIN vars[t] :
        LET variable == vars[t][v]
        IN  Begin(t, [Invocation("from_variable", "get_var", v)
                        EXCEPT !.buffer = [len |-> 0, cap |-> variable.len]],
                  IF AllocPanics(variable.len) THEN Outcome("panic", 0)
                  ELSE Outcome("Ok", variable.len))

\* get_var_as_type! (Variable::get_char .. get_double), up to the lock
get_var_as_type(t) ==
    /\ th[t].pc = "idle"
    /\ \E v \in DOMAIN vars[t], nc_type \in Kinds, cast \in BOOLEAN :
        LET variable == vars[t][v]
            o == TypeValidation(variable.vartype, nc_type, cast, variable.len)
        IN  Begin(t, [Invocation("get_var_as_type", "get_var", v)
                        EXCEPT !.nc_type = nc_type, !.cast = cast,
                               !.buffer = IF o.res = "Ok"
                                          THEN [len |-> 0, cap |-> variable.len]
                                          ELSE NoBuffer],
                  IF o.res = "Ok" /\ AllocPanics(variable.len)
                  THEN Outcome("panic", 0) ELSE o)

\* Numeric::read_variable_into_buffer, up to the lock
read_variable_into_buffer(t, B) ==
    /\ th[t].pc = "idle"
    /\ \E v \in DOMAIN vars[t], buffer \in B :
        Begin(t, [Invocation("read_variable_into_buffer", "get_var", v)
                    EXCEPT !.buffer = buffer, !.given = buffer],
              IntoValidation(vars[t][v].len, buffer.cap))

\* Numeric::single_value_from_variable, up to the lock
single_value_from_variable(t, I) ==
    /\ th[t].pc = "idle"
    /\ \E v \in DOMAIN vars[t], indices \in I :
        Begin(t, [Invocation("single_value_from_variable", "get_var1", v)
                    EXCEPT !.indices = indices],
              IndexValidation(vars[t][v].dimensions, indices))

\* Numeric::slice_from_variable, up to the lock
slice_from_variable(t, I, S) ==
    /\ th[t].pc = "idle"
    /\ \E v \in DOMAIN vars[t], indices \in I, slice_len \in S, checked \in BOOLEAN :
        Begin(t, [Invocation("slice_from_variable", "get_vara", v)
                    EXCEPT !.indices = indices, !.slice_len = slice_len],
              SliceValidation(vars[t][v].dimensions, indices, slice_len, checked))

\* Numeric::read_slice_into_buffer, up to the lock
read_slice_into_buffer(t, I, S, B) ==
    /\ th[t].pc = "idle"
    /\ \E v \in DOMAIN vars[t], indices \in I, slice_len \in S, buffer \in B,
          checked \in BOOLEAN :
        Begin(t, [Invocation("read_slice_into_buffer", "get_vara", v)
                    EXCEPT !.indices = indices, !.slice_len = slice_len,
                           !.buffer = buffer, !.given = buffer],
              SliceIntoValidation(vars[t][v].dimensions, indices, slice_len,
                                  buffer.cap, checked))

\* Numeric::put_value_at, up to the lock
put_value_at(t, I) ==
    /\ th[t].pc = "idle"
    /\ nwrites < MaxWrites
    /\ \E v \in DOMAIN vars[t], indices \in I, value \in {1, MaxValues} :
        Begin(t, [Invocation("put_value_at", "put_var1", v)
                    EXCEPT !.indices = indices, !.values = <<value>>],
              IndexValidation(vars[t][v].dimensions, indices))

\* Numeric::put_values_at, up to the lock
put_values_at(t, I, S) ==
    /\ th[t].pc = "idle"
    /\ nwrites < MaxWrites
    /\ \E v \in DOMAIN vars[t], indices \in I, slice_len \in S,
          nvalues \in 0..MaxValues, checked \in BOOLEAN :
        Begin(t, [Invocation("put_values_at", "put_vara", v)
                    EXCEPT !.indices = indices, !.slice_len = slice_len,
                           !.values = Iota(nvalues)],
              PutValuesValidation(vars[t][v].dimensions, indices, slice_len,
                                  nvalues, checked))

\* Variable::add_attribute, up to the lock inside PutAttr::put
add_attribute(t) ==
    /\ th[t].pc = "idle"
    /\ \E v \in DOMAIN vars[t], name \in AttNames, attrtype \in {"NC_CHAR"} :
        Begin(t, [Invocation("add_attribute", "put_att", v)
                    EXCEPT !.att = name, !.nc_type = attrtype],
              Outcome("Ok", 0))

\* Variable::set_fill_value, up to the lock
set_fill_value(t) ==
    /\ th[t].pc = "idle"
    /\ \E v \in DOMAIN vars[t] :
        Begin(t, Invocation("set_fill_value", "def_var_fill", v), Outcome("Ok", 0))

\* init_variables, up to the lock
init_variables(t) ==
    /\ th[t].pc = "idle"
    /\ Begin(t, Invocation("init_variables", "inq_nvars", "none"), Outcome("Ok", 0))

\* init_variable called on its own, up to the lock
init_variable(t) ==
    /\ th[t].pc = "idle"
    /\ \E varid \in 0..(Len(ncvars[t]) - 1) :
        Begin(t, [Invocation("init_variable", "inq_var", "none") EXCEPT !.i = varid],
              Outcome("Ok", 0))


\* ------------------------------------------------------- libnetcdf_lock
\* The invocations whose unsafe block holds statements before the call
HasInLock(op) ==
    op \in {"from_variable", "get_var_as_type", "read_variable_into_buffer",
            "slice_from_variable", "read_slice_into_buffer"}

\* The phases whose unsafe block asserts the returned code
Asserts(phase) == phase \in {"inq_nvars", "inq_var", "inq_att"}

\* A panic that unwinds through the guard: the mutex is released, poisoned
PanicHolding(t) ==
    /\ holder' = 0
    /\ poisoned' = TRUE
    /\ Set(t, [th[t] EXCEPT !.pc = "done", !.res = "panic"])

\* For C1: lock() returns a guard although another thread holds one
LockUnchecked(t) ==
    /\ th[t].pc = "lock"
    /\ ~poisoned
    /\ holder' = t
    /\ Set(t, [th[t] EXCEPT !.pc = IF HasInLock(th[t].op) THEN "locked" ELSE "engine",
                            !.locks = th[t].locks + 1])
    /\ UNCHANGED <<ncdims, ncvars, ncatts, ncdata, vars, poisoned, nwrites, written>>

\* libnetcdf_lock.lock().unwrap()
Lock(t) ==
    /\ th[t].pc = "lock"
    /\ holder = 0
    /\ IF poisoned
       THEN /\ Set(t, [th[t] EXCEPT !.pc = "done", !.res = "panic"])
            /\ UNCHANGED holder
       ELSE /\ holder' = t
            /\ Set(t, [th[t] EXCEPT !.pc = IF HasInLock(th[t].op) THEN "locked"
                                           ELSE "engine",
                                    !.locks = th[t].locks + 1])
    /\ UNCHANGED <<ncdims, ncvars, ncatts, ncdata, vars, poisoned, nwrites, written>>

\* The statements of the unsafe block that precede the library call:
\* buf.set_len / buffer.set_len, or Vec::with_capacity and set_len
InLock(t) ==
    LET r == th[t]
    IN  /\ r.pc = "locked"
        /\ IF r.op = "slice_from_variable"
           THEN IF AllocPanics(r.values_len)
                THEN PanicHolding(t)
                ELSE /\ Set(t, [r EXCEPT !.pc = "engine",
                                         !.buffer = [len |-> r.values_len,
                                                     cap |-> r.values_len],
                                         !.inlock = <<"with_capacity", "set_len">>])
                     /\ UNCHANGED <<holder, poisoned>>
           ELSE /\ Set(t, [r EXCEPT !.pc = "engine",
                                    !.buffer.len = IF r.op = "read_slice_into_buffer"
                                                   THEN r.values_len
                                                   ELSE vars[t][r.v].len,
                                    !.inlock = <<"set_len">>])
                /\ UNCHANGED <<holder, poisoned>>
        /\ UNCHANGED <<ncdims, ncvars, ncatts, ncdata, vars, nwrites, written>>

\* ----------------------------------------------------- the library call
\* The library's dimension lengths of variable `varid` of group g
LibDimLens(g, varid) ==
    LET d == ncvars[g][varid + 1]
    IN  [k \in 1..Len(d.dimids) |-> ncdims[g][d.dimids[k] + 1]]

\* A start or count array shorter than the variable's rank: the library
\* reads past its end, and finds any words there
Completions(s, rank) ==
    IF Len(s) >= rank THEN {s}
    ELSE {s \o pad : pad \in {q \in SeqsUpTo(ArgWords, rank - Len(s)) :
                                Len(q) = rank - Len(s)}}

\* A values array shorter than the region: the library reads past its end
Padded(values, n, junk) ==
    [k \in 1..n |-> IF k <= Len(values) THEN values[k] ELSE junk]

\* The call fails for a reason of its own (I/O, mode, permissions)
Failed(t) ==
    /\ Set(t, [th[t] EXCEPT !.pc = "unlock", !.err = "NC_EPERM",
                            !.calls = th[t].calls + 1])
    /\ UNCHANGED <<ncatts, ncdata, nwrites, written>>

Returned(t, r) == Set(t, [r EXCEPT !.pc = "unlock", !.calls = th[t].calls + 1])

\* nc_get_var_*: the whole variable
GetVarCall(t) ==
    /\ Returned(t, [th[t] EXCEPT !.out = ncdata[t][vars[t][th[t].v].id + 1]])
    /\ UNCHANGED <<ncatts, ncdata, nwrites, written>>

\* nc_get_var1_* and nc_get_vara_*
GetRegionCall(t, count) ==
    LET r == th[t]
        varid == vars[t][r.v].id
        dimlens == LibDimLens(t, varid)
    IN  /\ IF RegionInside(dimlens, r.indices, count)
           THEN Returned(t, [r EXCEPT !.out = GetVara(ncdata[t][varid + 1], dimlens,
                                                      r.indices, count)])
           ELSE Returned(t, [r EXCEPT !.err = "NC_EEDGE"])
        /\ UNCHANGED <<ncatts, ncdata, nwrites, written>>

\* nc_put_var1_* and nc_put_vara_*
PutRegionCall(t, count) ==
    LET r == th[t]
        varid == vars[t][r.v].id
        dimlens == LibDimLens(t, varid)
    IN  \E start \in Completions(r.indices, Len(dimlens)),
           cnt \in Completions(count, Len(dimlens)), junk \in {0, WordMax} :
            LET ub == \/ Len(r.indices) < Len(dimlens)
                      \/ /\ RegionInside(dimlens, start, cnt)
                         /\ Product(cnt) > Len(r.values)
            IN  /\ ub \/ junk = 0
                /\ IF RegionInside(dimlens, start, cnt)
                   THEN /\ ncdata' = [ncdata EXCEPT ![t][varid + 1] =
                                        PutVara(@, dimlens, start, cnt,
                                                Padded(r.values, Product(cnt), junk))]
                        /\ nwrites' = nwrites + 1
                        /\ written' = [written EXCEPT ![t] =
                                          IF r.phase = "put_vara" /\ ~ub
                                          THEN [v |-> r.v, indices |-> r.indices,
                                                slice_len |-> r.slice_len,
                                                values |-> r.values]
                                          ELSE <<>>]
                        /\ Returned(t, [r EXCEPT !.ub = ub])
                   ELSE /\ Returned(t, [r EXCEPT !.err = "NC_EEDGE", !.ub = ub])
                        /\ UNCHANGED <<ncdata, nwrites, written>>
                /\ UNCHANGED ncatts

\* nc_put_att_* (inside PutAttr::put) and nc_def_var_fill
PutAttCall(t, name, xtype) ==
    /\ ncatts' = [ncatts EXCEPT ![t][vars[t][th[t].v].id + 1] = PutAtt(@, name, xtype)]
    /\ Returned(t, th[t])
    /\ UNCHANGED <<ncdata, nwrites, written>>

\* nc_inq_varnatts, nc_inq_nvars, nc_inq_var, and the attribute inquiry of
\* init_attributes
InquiryCall(t) ==
    LET r == th[t]
        varid == IF r.v = "none" THEN r.i ELSE vars[t][r.v].id
    IN  /\ CASE r.phase = "inq_varnatts" ->
                    Returned(t, [r EXCEPT !.natts = Len(ncatts[t][varid + 1])])
              [] r.phase = "inq_nvars" ->
                    Returned(t, [r EXCEPT !.n = Len(ncvars[t])])
              [] r.phase = "inq_var" ->
                    Returned(t, [r EXCEPT !.decl = ncvars[t][varid + 1],
                                          !.natts = Len(ncatts[t][varid + 1])])
              [] r.phase = "inq_att" ->
                    IF r.i_att < Len(ncatts[t][varid + 1])
                    THEN Returned(t, [r EXCEPT !.found =
                                        Append(@, ncatts[t][varid + 1][r.i_att + 1])])
                    ELSE Returned(t, [r EXCEPT !.err = "NC_ENOTATT"])
        /\ UNCHANGED <<ncatts, ncdata, nwrites, written>>

\* The library call of the invocation, from its entry to its return
EngineReturn(t) ==
    LET r == th[t]
    IN  /\ r.pc = "engine"
        /\ \/ Failed(t)
           \/ CASE r.phase = "get_var" -> GetVarCall(t)
                [] r.phase = "get_var1" -> GetRegionCall(t, Ones(Len(r.indices)))
                [] r.phase = "get_vara" -> GetRegionCall(t, r.slice_len)
                [] r.phase = "put_var1" -> PutRegionCall(t, Ones(Len(r.indices)))
                [] r.phase = "put_vara" -> PutRegionCall(t, r.slice_len)
                [] r.phase = "put_att" -> PutAttCall(t, r.att, r.nc_type)
                [] r.phase = "def_var_fill" ->
                        PutAttCall(t, "_FillValue", vars[t][r.v].vartype)
                [] OTHER -> InquiryCall(t)
        /\ UNCHANGED <<ncdims, ncvars, vars, holder, poisoned>>


\* ------------------------------------------- after the unsafe block ends
\* self.attributes.clear() of update_attributes
Cleared(attributes) == <<>>

\* For C8: the cache is refilled up to the count it held before the call
NattsCached(cached, queried) == cached

\* update_attributes: the count passed to init_attributes is the one just
\* queried, whatever the cache held
Natts(cached, queried) == queried

Done(r, res) == [r EXCEPT !.pc = "done", !.res = res]

\* For C9: the insert replaces the whole cache
AddedAttributeOnly(variable, name, attrtype) ==
    [variable EXCEPT !.attributes =
        Insert(<<>>, name, [name |-> name, attrtype |-> attrtype, id |-> 0,
                            var_id |-> variable.id, file_id |-> variable.grp_id])]

\* self.attributes.insert(..) of add_attribute
AddedAttribute(variable, name, attrtype) ==
    [variable EXCEPT !.attributes =
        Insert(@, name, [name |-> name, attrtype |-> attrtype, id |-> 0,
                         var_id |-> variable.id, file_id |-> variable.grp_id])]

\* init_variable from `vars.insert` on, and the loop of init_variables
Inserted(t, r) ==
    /\ vars' = [vars EXCEPT ![t] =
                  Insert(@, r.decl.name,
                         NewVariable(GrpDims(t), r.decl.name, r.decl.xtype,
                                     r.decl.dimids, AttrMap(r.found, r.i, t), r.i, t))]
    /\ IF r.op = "init_variables" /\ r.i + 1 < r.n
       THEN Set(t, [r EXCEPT !.pc = "lock", !.phase = "inq_var", !.i = r.i + 1,
                             !.found = <<>>, !.i_att = 0])
       ELSE Set(t, Done(r, "Ok"))

\* The statements that follow the unsafe block, up to the next lock() or
\* to the return
Continue(t, r) ==
    CASE r.err # "NC_NOERR" ->
            Set(t, Done(r, "EngineError")) /\ UNCHANGED vars
      [] r.phase = "put_att" ->
            /\ vars' = [vars EXCEPT ![t][r.v] = AddedAttribute(@, r.att, r.nc_type)]
            /\ Set(t, Done(r, "Ok"))
      [] r.phase = "def_var_fill" ->
            Set(t, [r EXCEPT !.pc = "lock", !.phase = "inq_varnatts"]) /\ UNCHANGED vars
      [] r.phase = "inq_varnatts" ->
            /\ vars' = [vars EXCEPT ![t][r.v].attributes = Cleared(@)]
            /\ IF Natts(Cardinality(DOMAIN vars[t][r.v].attributes), r.natts) > 0
               THEN Set(t, [r EXCEPT !.pc = "lock", !.phase = "inq_att", !.i_att = 0,
                                     !.found = <<>>,
                                     !.natts = Natts(Cardinality(DOMAIN vars[t][r.v].attributes),
                                                     r.natts)])
               ELSE Set(t, Done(r, "Ok"))
      [] r.phase = "inq_nvars" ->
            /\ IF r.n > 0
               THEN Set(t, [r EXCEPT !.pc = "lock", !.phase = "inq_var", !.i = 0])
               ELSE Set(t, Done(r, "Ok"))
            /\ UNCHANGED vars
      [] r.phase = "inq_var" ->
            IF r.natts > 0
            THEN /\ Set(t, [r EXCEPT !.pc = "lock", !.phase = "inq_att", !.i_att = 0,
                                     !.found = <<>>])
                 /\ UNCHANGED vars
            ELSE Inserted(t, r)
      [] r.phase = "inq_att" /\ r.op = "set_fill_value" ->
            /\ vars' = [vars EXCEPT ![t][r.v].attributes =
                          Insert(@, r.found[r.i_att + 1].name,
                                 AttEntry(r.found[r.i_att + 1], r.i_att,
                                          vars[t][r.v].id, t))]
            /\ IF r.i_att + 1 < r.natts
               THEN Set(t, [r EXCEPT !.pc = "lock", !.i_att = r.i_att + 1])
               ELSE Set(t, Done(r, "Ok"))
      [] r.phase = "inq_att" /\ r.op # "set_fill_value" ->
            IF r.i_att + 1 < r.natts
            THEN Set(t, [r EXCEPT !.pc = "lock", !.i_att = r.i_att + 1]) /\ UNCHANGED vars
            ELSE Inserted(t, r)
      [] OTHER ->
            Set(t, Done(r, "Ok")) /\ UNCHANGED vars

\* The end of the unsafe block: assert_eq!(err, NC_NOERR) where there is
\* one, the drop of the guard, and what follows it
Unlock(t) ==
    LET r == th[t]
    IN  /\ r.pc = "unlock"
        /\ holder = t
        /\ IF Asserts(r.phase) /\ r.err # "NC_NOERR"
           THEN PanicHolding(t) /\ UNCHANGED vars
           ELSE /\ holder' = 0
                /\ Continue(t, r)
                /\ UNCHANGED poisoned
        /\ UNCHANGED <<ncdims, ncvars, ncatts, ncdata, nwrites, written>>

\* The caller takes the result; a thread that panicked has ended
Return(t) ==
    /\ th[t].pc = "done"
    /\ th[t].res # "panic"
    /\ Set(t, Idle)
    /\ UNCHANGED <<ncdims, ncvars, ncatts, ncdata, vars, holder, poisoned, nwrites, written>>

\* The steps every invocation shares
Step(t) == Lock(t) \/ InLock(t) \/ EngineReturn(t) \/ Unlock(t) \/ Return(t)


\* ---------------------------------------------------------- specifications
\* The state once the library holds `cfg`; with `discovered`, once
\* init_variables has built every group's catalog as well
InitWith(Configs, discovered) ==
    \E cfg \in Configs :
        /\ ncdims = [g \in Threads |-> cfg.dims]
        /\ ncvars = [g \in Threads |->
                        [k \in 1..Len(cfg.vars) |->
                            [name |-> cfg.vars[k].name, xtype |-> cfg.vars[k].xtype,
                             dimids |-> cfg.vars[k].dimids]]]
        /\ ncatts = [g \in Threads |-> [k \in 1..Len(cfg.vars) |-> cfg.vars[k].atts]]
        /\ ncdata = [g \in Threads |->
                        [k \in 1..Len(cfg.vars) |-> FreshData(DeclLen(cfg, cfg.vars[k]))]]
        /\ vars = [g \in Threads |->
                      IF discovered THEN Discovered(g, Len(cfg.vars)) ELSE <<>>]
        /\ holder = 0
        /\ poisoned = FALSE
        /\ th = [t \in Threads |-> Idle]
        /\ nwrites = 0
        /\ written = [g \in Threads |-> <<>>]

\* Shapes whose element count fits a word
Shapes == {s \in SeqsUpTo(1..MaxDimLen, MaxDims) : Product(s) <= WordMax}

\* One variable over dimensions 0, 1, .. in that order
SliceConfigs ==
    {Config(s, <<Decl("v0", "NC_INT", [k \in 1..Len(s) |-> k - 1], <<>>)>>) : s \in Shapes}

\* One caller reading and writing elements and slices of a discovered variable
Init == InitWith(SliceConfigs, TRUE)

Next ==
    \/ single_value_from_variable(1, ArgSeqs)
    \/ slice_from_variable(1, ArgSeqs, ArgSeqs)
    \/ put_value_at(1, ArgSeqs)
    \/ put_values_at(1, ArgSeqs, ArgSeqs)
    \/ Step(1)

Spec == Init /\ [][Next]_vars_all

\* One caller reading a discovered variable into buffers of its own,
\* from the first or the last index of a dimension
IntoStarts == SeqsUpTo({0, MaxDimLen - 1}, MaxDims)
InRangeSeqs == SeqsUpTo(0..MaxArg, MaxDims)

NextInto ==
    \/ read_variable_into_buffer(1, Buffers)
    \/ read_slice_into_buffer(1, IntoStarts, InRangeSeqs, Buffers)
    \/ Step(1)

SpecInto == Init /\ [][NextInto]_vars_all

\* One caller discovering the variables of its group, reading them whole
\* and changing their attributes; the dimensions are used in any order
Orders == {s \in SeqsUpTo(0..(MaxDims - 1), MaxDims) :
              \A i, j \in 1..Len(s) : i # j => s[i] # s[j]}

MetaConfigs ==
    {Config(lens, <<Decl("v0", "NC_INT", dimids, atts)>> \o more) :
        lens \in {s \in SeqsUpTo({1, MaxDimLen}, MaxDims) :
                     Len(s) = MaxDims /\ Product(s) <= WordMax},
        dimids \in Orders,
        atts \in {<<>>, <<[name |-> "title", xtype |-> "NC_CHAR"],
                          [name |-> "units", xtype |-> "NC_CHAR"]>>},
        more \in {<<>>, <<Decl("v1", "NC_DOUBLE", <<0>>, <<>>)>>}}

InitMeta == InitWith(MetaConfigs, FALSE)

NextMeta ==
    \/ init_variables(1)
    \/ init_variable(1)
    \/ from_variable(1)
    \/ get_var_as_type(1)
    \/ add_attribute(1)
    \/ set_fill_value(1)
    \/ Step(1)

SpecMeta == InitMeta /\ [][NextMeta]_vars_all

\* One caller changing the attributes of a discovered variable
AttConfigs ==
    {Config(<<MaxDimLen>>, <<Decl("v0", "NC_INT", <<0>>, atts)>>) :
        atts \in {<<>>, <<[name |-> "title", xtype |-> "NC_CHAR"],
                          [name |-> "units", xtype |-> "NC_CHAR"]>>}}

InitAtts == InitWith(AttConfigs, TRUE)

\* The caller removes an attribute through the library itself: the cache
\* of the Variable is a snapshot and is not told
foreign_del_att(t) ==
    /\ th[t].pc = "idle"
    /\ nwrites < MaxWrites
    /\ \E k \in 1..Len(ncatts[t]) :
          /\ ncatts[t][k] # <<>>
          /\ ncatts' = [ncatts EXCEPT ![t][k] = SubSeq(@, 1, Len(@) - 1)]
    /\ nwrites' = nwrites + 1
    /\ UNCHANGED <<ncdims, ncvars, ncdata, vars, holder, poisoned, th, written>>

NextAtts ==
    \/ add_attribute(1)
    \/ from_variable(1)
    \/ set_fill_value(1)
    \/ init_variable(1)
    \/ foreign_del_att(1)
    \/ Step(1)

SpecAtts == InitAtts /\ [][NextAtts]_vars_all

\* Threads, each on a group of its own, in every operation at once
ThreadConfigs == {Config(<<MaxDimLen>>, <<Decl("v0", "NC_INT", <<0>>, <<>>)>>)}

InitThreads == InitWith(ThreadConfigs, TRUE)

NextThreads ==
    \E t \in Threads :
        \/ from_variable(t)
        \/ get_var_as_type(t)
        \/ read_variable_into_buffer(t, {[len |-> 0, cap |-> MaxValues]})
        \/ single_value_from_variable(t, {<<0>>})
        \/ slice_from_variable(t, {<<0>>}, {<<1>>})
        \/ read_slice_into_buffer(t, {<<0>>}, {<<1>>}, {[len |-> 0, cap |-> MaxValues]})
        \/ put_value_at(t, {<<0>>})
        \/ put_values_at(t, {<<0>>}, {<<1>>})
        \/ set_fill_value(t)
        \/ init_variables(t)
        \/ init_variable(t)
        \/ Step(t)

SpecThreads == InitThreads /\ [][NextThreads]_vars_all


\* ------------------------------------------------------------ the claims
\* The Variable an invocation works on, and its dimension lengths
Variable(t) == vars[t][th[t].v]
Dims(t) == DimLens(Variable(t).dimensions)

Addressed ==
    {"single_value_from_variable", "slice_from_variable", "read_slice_into_buffer",
     "put_value_at", "put_values_at"}
Sliced == {"slice_from_variable", "read_slice_into_buffer", "put_values_at"}

Invoked(t, ops) == th[t].pc # "idle" /\ th[t].op \in ops

\* The invocation went on to lock() and the library call
Accepted(t) == th[t].pc \in {"lock", "locked", "engine", "unlock"} \/ th[t].locks > 0

\* The invocation returned `res` before any lock() or library call
Rejected(t, res) ==
    th[t].pc = "done" /\ th[t].res = res /\ th[t].locks = 0 /\ th[t].calls = 0

\* Invariant 3: as many indices, and slice lengths, as dimensions
CardinalityOk(t) ==
    /\ Len(th[t].indices) = Len(Dims(t))
    /\ th[t].op \in Sliced => Len(th[t].slice_len) = Len(Dims(t))

\* Invariant 4, on the unbounded integers
BoundsOk(t) ==
    \A i \in 1..Len(Dims(t)) :
        /\ th[t].indices[i] < Dims(t)[i]
        /\ th[t].op \in Sliced =>
              /\ th[t].indices[i] + th[t].slice_len[i] <= Dims(t)[i]
              /\ th[t].slice_len[i] >= 1

\* C2: a write_slice whose indices and shape satisfy the cardinality and
\* bounds rules reaches the library call if and only if values holds
\* product(shape) elements, and otherwise returns ShapeError, no call made.
C2_WriteSliceLength ==
    \A t \in Threads :
        (Invoked(t, {"put_values_at"}) /\ CardinalityOk(t) /\ BoundsOk(t)) =>
            IF Len(th[t].values) = Product(th[t].slice_len)
            THEN Accepted(t)
            ELSE Rejected(t, "ShapeError")

\* C3: a write_slice of product(shape) values at valid indices/shape
\* succeeds (when the library call does), and a read_slice of the slice
\* last written, not overwritten since, returns those values in order.
C3_RoundTrip ==
    \A t \in Threads :
        /\ (/\ Invoked(t, {"put_values_at"}) /\ CardinalityOk(t) /\ BoundsOk(t)
            /\ Len(th[t].values) = Product(th[t].slice_len)
            /\ th[t].pc = "done" /\ th[t].err = "NC_NOERR")
              => th[t].res = "Ok"
        /\ (/\ Invoked(t, {"slice_from_variable"}) /\ th[t].pc = "done"
            /\ th[t].res = "Ok"
            /\ written[t] # <<>>
            /\ written[t].v = th[t].v
            /\ written[t].indices = th[t].indices
            /\ written[t].slice_len = th[t].slice_len
            /\ Len(written[t].values) = Product(th[t].slice_len))
              => th[t].out = written[t].values

\* C4: an addressed operation whose indices or shape argument is shorter
\* or longer than the variable's dimensions returns ShapeError as a value:
\* no panic, no lock, no library call.
C4_Cardinality ==
    \A t \in Threads :
        (Invoked(t, Addressed) /\ ~CardinalityOk(t)) => Rejected(t, "ShapeError")

\* C5: with as many indices and slice lengths as dimensions, an index at or
\* beyond its dimension, a slice that ends beyond it, or a slice length of 0
\* makes the operation return ShapeError; the library call is reached only
\* when every dimension satisfies invariant 4.
C5_Bounds ==
    \A t \in Threads :
        (Invoked(t, Addressed) /\ CardinalityOk(t)) =>
            /\ ~BoundsOk(t) => Rejected(t, "ShapeError")
            /\ Accepted(t) => BoundsOk(t)


\* C1: whatever the threads invoke, at most one of them is inside a library
\* call, and it is the one that holds libnetcdf_lock.
C1_MutualExclusion ==
    \A t1, t2 \in Threads :
        th[t1].pc = "engine" => (holder = t1 /\ (th[t2].pc = "engine" => t1 = t2))

C1_Witness ==
    \E t1, t2 \in Threads :
        /\ th[t1].pc = "engine" /\ th[t1].op = "put_values_at"
        /\ th[t2].pc = "lock" /\ th[t2].op = "init_variables"

\* C6: an into-buffer read that passes the index and shape validation with
\* a buffer whose capacity is below the required count (product(shape), or
\* v.len for a whole read) returns CapacityError with the buffer as it was
\* and no library call; with enough capacity it is never refused for
\* capacity, and when it succeeds the buffer's length is the required count.
IntoOps == {"read_variable_into_buffer", "read_slice_into_buffer"}

Required(t) ==
    IF th[t].op = "read_variable_into_buffer" THEN Variable(t).len
    ELSE Product(th[t].slice_len)

C6_Capacity ==
    \A t \in Threads :
        (/\ Invoked(t, IntoOps)
         /\ th[t].op = "read_slice_into_buffer" => (CardinalityOk(t) /\ BoundsOk(t)))
        => IF th[t].given.cap < Required(t)
           THEN Rejected(t, "CapacityError") /\ th[t].buffer = th[t].given
           ELSE /\ th[t].res # "CapacityError"
                /\ (th[t].pc = "done" /\ th[t].res = "Ok") =>
                      (th[t].buffer.len = Required(t) /\ Len(th[t].out) = Required(t))

C6_Witness ==
    \E t \in Threads :
        /\ Invoked(t, {"read_slice_into_buffer"})
        /\ Len(th[t].slice_len) = 2
        /\ Rejected(t, "CapacityError")
        /\ th[t].given.len > 0

\* C7: every Variable of a catalog has len equal to the product of the
\* lengths of its dimensions, which are the declared ones in the declared
\* order, in every reachable state; and a successful read_all returns
\* exactly len elements.
C7_Len ==
    \A t \in Threads :
        /\ \A nm \in DOMAIN vars[t] :
              LET v == vars[t][nm]
              IN  /\ v.len = Product(DimLens(v.dimensions))
                  /\ [k \in 1..Len(v.dimensions) |-> v.dimensions[k].id]
                        = ncvars[t][v.id + 1].dimids
                  /\ DimLens(v.dimensions) = LibDimLens(t, v.id)
        /\ (Invoked(t, {"from_variable"}) /\ th[t].pc = "done" /\ th[t].res = "Ok") =>
              (Len(th[t].out) = Variable(t).len /\ th[t].buffer.len = Variable(t).len)

C7_Witness ==
    \E t \in Threads :
        /\ Invoked(t, {"from_variable"}) /\ th[t].pc = "done" /\ th[t].res = "Ok"
        /\ Cardinality(DOMAIN vars[t]) = 2
        /\ Len(Variable(t).dimensions) = 2
        /\ Variable(t).dimensions[1].id = 1
        /\ Variable(t).len = 2

\* C8: after a successful set_fill_value the attribute cache holds exactly
\* the attributes the library reports, built anew: as many entries as the
\* library has attributes, none left over from before.
C8_FillRebuild ==
    \A t \in Threads :
        (Invoked(t, {"set_fill_value"}) /\ th[t].pc = "done" /\ th[t].res = "Ok") =>
            LET atts == ncatts[t][Variable(t).id + 1]
            IN  /\ Variable(t).attributes = AttrMap(atts, Variable(t).id, t)
                /\ Cardinality(DOMAIN Variable(t).attributes) = Len(atts)

C8_Witness ==
    \E t \in Threads :
        /\ Invoked(t, {"set_fill_value"}) /\ th[t].pc = "done" /\ th[t].res = "Ok"
        /\ DOMAIN Variable(t).attributes = {"title", "units", "_FillValue"}

\* C9: add_attribute changes the cache only in the step that follows a
\* successful library write, and then only the entry under `name`; a failed
\* write is returned as an error and leaves the cache as it was.
C9_AddAttribute ==
    [][\A t \in Threads :
        th[t].op = "add_attribute" =>
            IF th[t].pc = "unlock" /\ th[t].err = "NC_NOERR"
            THEN /\ th'[t].res = "Ok"
                 /\ \E k \in 1..Len(ncatts[t][Variable(t).id + 1]) :
                       ncatts[t][Variable(t).id + 1][k].name = th[t].att
                 /\ DOMAIN vars'[t][th[t].v].attributes =
                       (DOMAIN Variable(t).attributes) \cup {th[t].att}
                 /\ \A nm \in (DOMAIN Variable(t).attributes) \ {th[t].att} :
                       vars'[t][th[t].v].attributes[nm] = Variable(t).attributes[nm]
            ELSE /\ vars' = vars
                 /\ th[t].pc = "unlock" => th'[t].res = "EngineError"]_vars_all

C9_Witness ==
    \E t \in Threads :
        /\ Invoked(t, {"add_attribute"}) /\ th[t].pc = "done" /\ th[t].res = "Ok"
        /\ DOMAIN Variable(t).attributes = {"title", "units"}
        /\ Variable(t).attributes["units"].id = 0
        /\ Variable(t).attributes["title"].id = 0

\* C10: a legacy exact-type accessor with cast = false on a variable of
\* another kind returns TypeMismatchError without lock or library call;
\* with cast = true, or an equal kind, or through the generic accessors, no
\* call is refused for its kind.
C10_ExactType ==
    \A t \in Threads :
        /\ Invoked(t, {"get_var_as_type"}) =>
              IF (~th[t].cast) /\ Variable(t).vartype # th[t].nc_type
              THEN Rejected(t, "TypeMismatchError")
              ELSE th[t].res # "TypeMismatchError"
        /\ Invoked(t, {"from_variable"}) => th[t].res # "TypeMismatchError"

C10_Witness ==
    \E t \in Threads :
        /\ Invoked(t, {"get_var_as_type"})
        /\ Rejected(t, "TypeMismatchError")
        /\ Variable(t).vartype = "NC_DOUBLE"

\* C11: in every accessor the lock is held for the library call alone: an
\* invocation that holds the guard is inside its library call or has just
\* returned from it, it has run no other statement under the guard, and its
\* validation was over before lock().
Accessors ==
    {"from_variable", "get_var_as_type", "read_variable_into_buffer",
     "single_value_from_variable", "slice_from_variable", "read_slice_into_buffer",
     "put_value_at", "put_values_at"}

C11_LockScope ==
    \A t \in Threads :
        Invoked(t, Accessors) =>
            /\ holder = t => th[t].pc \in {"engine", "unlock"}
            /\ th[t].inlock = <<>>
            /\ th[t].res \in {"ShapeError", "CapacityError", "TypeMismatchError"} =>
                  th[t].locks = 0

\* C12: an invocation of a numeric accessor never makes a second library
\* call; once it has ended it has made none if its validation refused the
\* arguments and exactly one otherwise, and a call that returned an error
\* code ends the invocation with EngineError.
NumericOps ==
    {"from_variable", "read_variable_into_buffer", "single_value_from_variable",
     "slice_from_variable", "read_slice_into_buffer", "put_value_at", "put_values_at"}

C12_OneCall ==
    \A t \in Threads :
        Invoked(t, NumericOps) =>
            /\ th[t].calls <= 1
            /\ th[t].pc = "done" =>
                  /\ th[t].calls =
                        IF th[t].res \in {"ShapeError", "CapacityError"} THEN 0 ELSE 1
                  /\ th[t].err # "NC_NOERR" => th[t].res = "EngineError"

\* C13: whenever a slice accessor is in, or has made, its library call, the
\* sums indices[i] + slice_len[i] taken on the unbounded integers are within
\* the dimensions, and the buffer a read hands to the library holds exactly
\* the unbounded product of slice_len (the count put_values_at compares its
\* values with is the subject of C2).
C13_NoWrap ==
    \A t \in Threads :
        (Invoked(t, Sliced) /\ (th[t].pc = "engine" \/ th[t].calls > 0)) =>
            /\ \A i \in 1..Len(th[t].indices) :
                  (i <= Len(Dims(t)) /\ i <= Len(th[t].slice_len)) =>
                      th[t].indices[i] + th[t].slice_len[i] <= Dims(t)[i]
            /\ th[t].op # "put_values_at" =>
                  th[t].buffer.len = Product(th[t].slice_len)

\* C14: the lock is never leaked or left unusable: a thread that is outside
\* an unsafe block (before lock(), between the two blocks of set_fill_value,
\* after its last block, ended in any way) does not hold the guard, and the
\* mutex is never poisoned, so that lock().unwrap() returns a guard to
\* whoever asks once the lock is free.
C14_LockUsable ==
    /\ ~poisoned
    /\ \A t \in Threads :
          th[t].pc \in {"idle", "lock", "done"} => holder # t

====
